---- MODULE Spec2Model ----
(***************************************************************************)
(* Typed expression nodes of WDL/Expr.py: every constructor derives and    *)
(* validates the node's static type, typecheck validates a node against an *)
(* expected type, eval reduces a node to a value against an Env.           *)
(*                                                                         *)
(* A node is a record; its sub-expressions are nested records.  A type is  *)
(* a sequence of tags: <<"Int">>, <<"AnyArray">>, <<"Array", "Int">> for   *)
(* Array(Int), <<"Array", "Array", "Int">> for Array(Array(Int)).          *)
(* A Float is written in tenths (15 is 1.5).  SourcePosition never         *)
(* influences control flow and is left out of the node record.             *)
(***************************************************************************)
EXTENDS Integers, Sequences, FiniteSets, TLC

\* The nodes constructed number at most MaxNodes.
MaxNodes == 4
\* An Array holds at most MaxItems items, and at most MaxItems constructed
\* nodes await their parent.
MaxItems == 3

VARIABLES stack, result, evals
vars == <<stack, result, evals>>

(***************************************************************************)
(* WDL.Type                                                                *)
(***************************************************************************)
NoneT == <<"None">>
TBoolean == <<"Boolean">>
TInt == <<"Int">>
TFloat == <<"Float">>
TString == <<"String">>
TAnyArray == <<"AnyArray">>
TArray(item_type) == <<"Array">> \o item_type

TypeEq(a, b) == a = b
IsFloat(t) == t[1] = "Float"
IsAnyArray(t) == t[1] \in {"AnyArray", "Array"}

(***************************************************************************)
(* WDL.Value                                                               *)
(***************************************************************************)
MkValue(type, bool, num, str, elems) ==
    [type |-> type, bool |-> bool, num |-> num, str |-> str, elems |-> elems]
NoValue == MkValue(NoneT, FALSE, 0, <<>>, <<>>)
VBoolean(b) == MkValue(TBoolean, b, 0, <<>>, <<>>)
VInt(i) == MkValue(TInt, FALSE, i, <<>>, <<>>)
VFloat(f) == MkValue(TFloat, FALSE, f, <<>>, <<>>)
VString(s) == MkValue(TString, FALSE, 0, s, <<>>)
VArray(type, elems) == MkValue(type, FALSE, 0, <<>>, elems)

ValOk(v) == [ok |-> TRUE, val |-> v, err |-> "none"]
ValErr(e) == [ok |-> FALSE, val |-> NoValue, err |-> e]

\* value.coerce(desired_type): an Int value widens to Float, any other
\* change of type is a dynamic type error.
Coerce(v, desired_type) ==
    IF desired_type = NoneT \/ TypeEq(v.type, desired_type) THEN ValOk(v)
    ELSE IF TypeEq(v.type, TInt) /\ IsFloat(desired_type) THEN ValOk(VFloat(v.num * 10))
    ELSE ValErr("RuntimeTypeMismatch")

\* value.expect(desired_type): the value as that type, or a dynamic type error.
Expect(v, desired_type) ==
    IF desired_type = NoneT \/ TypeEq(v.type, desired_type) THEN ValOk(v)
    ELSE ValErr("RuntimeTypeMismatch")

(***************************************************************************)
(* StaticEnv, Env                                                          *)
(***************************************************************************)
Names == {"x", "b", "u"}
TheStaticEnv == [x |-> TInt, b |-> TBoolean]

\* A string literal is the sequence of its characters, quotes included.
StrLit == <<"\"", "a", "\\", "n", "b", "\"">>

Envs ==
    { [x |-> VInt(1), b |-> VBoolean(TRUE)],
      [x |-> VInt(1), b |-> VBoolean(FALSE)],
      [x |-> VInt(1)],
      [x |-> VString(<<"a">>), b |-> VInt(1)] }

EnvHas(env, id) == id \in DOMAIN env

(***************************************************************************)
(* Expression nodes                                                        *)
(***************************************************************************)
MkNode(kind, type, bool, num, str, items, name, item_type) ==
    [kind |-> kind, type |-> type, bool |-> bool, num |-> num, str |-> str,
     items |-> items, name |-> name, item_type |-> item_type]
NoNode == MkNode("none", NoneT, FALSE, 0, <<>>, <<>>, "", NoneT)

\* Error.StaticTypeMismatch(node, expected, actual, message) and the others.
MkError(kind, node, expected, actual, note) ==
    [kind |-> kind, node |-> node, expected |-> expected, actual |-> actual,
     note |-> note]
NoError == MkError("none", NoNode, NoneT, NoneT, "")

Ok(n) == [ok |-> TRUE, node |-> n, err |-> NoError]
Err(e) == [ok |-> FALSE, node |-> NoNode, err |-> e]

\* Base.typecheck comparing the two type objects by identity: two separately
\* built types are never the same object
BaseTypecheckIdentity(n, expected) ==
    IF expected # NoneT
    THEN Err(MkError("StaticTypeMismatch", n, expected, n.type, ""))
    ELSE Ok(n)

\* Base.typecheck
BaseTypecheck(n, expected) ==
    IF expected # NoneT /\ ~TypeEq(n.type, expected)
    THEN Err(MkError("StaticTypeMismatch", n, expected, n.type, ""))
    ELSE Ok(n)

\* Int.typecheck converting the node to Float where a Float is expected
IntTypecheckConverting(n, expected) ==
    IF expected # NoneT /\ IsFloat(expected) THEN Ok([n EXCEPT !.type = TFloat])
    ELSE BaseTypecheck(n, expected)

\* Int.typecheck
IntTypecheck(n, expected) ==
    IF expected # NoneT /\ IsFloat(expected) THEN Ok(n)
    ELSE BaseTypecheck(n, expected)

\* Array.typecheck without the test for an empty array
ArrayTypecheckAnyLength(n, expected) ==
    IF expected # NoneT /\ IsAnyArray(expected) THEN Ok(n)
    ELSE BaseTypecheck(n, expected)

\* Array.typecheck
ArrayTypecheck(n, expected) ==
    IF Len(n.items) = 0 /\ expected # NoneT /\ IsAnyArray(expected) THEN Ok(n)
    ELSE BaseTypecheck(n, expected)

\* node.typecheck(expected), dispatched on the node's class
Typecheck(n, expected) ==
    CASE n.kind = "Int" -> IntTypecheck(n, expected)
      [] n.kind = "Array" -> ArrayTypecheck(n, expected)
      [] OTHER -> BaseTypecheck(n, expected)

\* Boolean.__init__, Int.__init__, Float.__init__, String.__init__
BooleanInit(literal) == Ok(MkNode("Boolean", TBoolean, literal, 0, <<>>, <<>>, "", NoneT))
IntInit(literal) == Ok(MkNode("Int", TInt, FALSE, literal, <<>>, <<>>, "", NoneT))
FloatInit(literal) == Ok(MkNode("Float", TFloat, FALSE, literal, <<>>, <<>>, "", NoneT))
StringInit(literal) == Ok(MkNode("String", TString, FALSE, 0, literal, <<>>, "", NoneT))

\* Array.__init__ without the promotion of Int to Float
ArrayItemTypeFirst(items) == items[1].type

\* Array.__init__: the assumed item type, the first item's type unless a
\* mixture of Int and Float promotes it
ArrayItemType(items) ==
    IF TypeEq(items[1].type, TInt)
       /\ \E i \in 1..Len(items) : TypeEq(items[i].type, TFloat)
    THEN TFloat
    ELSE items[1].type

\* Array.__init__: the items that fail typecheck against the item type
FailingItems(items, item_type) ==
    {i \in 1..Len(items) : ~Typecheck(items[i], item_type).ok}

\* Array.__init__ reporting the last failing item
OffendingItemLast(items, item_type) ==
    CHOOSE i \in {k \in 1..Len(items) : ~Typecheck(items[k], item_type).ok} :
        \A j \in {k \in 1..Len(items) : ~Typecheck(items[k], item_type).ok} : i >= j

\* Array.__init__: the item whose mismatch ends the checking loop
OffendingItem(items, item_type) ==
    CHOOSE i \in FailingItems(items, item_type) :
        \A j \in FailingItems(items, item_type) : i <= j

\* Array.__init__
ArrayInit(items) ==
    IF Len(items) = 0
    THEN Ok(MkNode("Array", TAnyArray, FALSE, 0, <<>>, items, "", NoneT))
    ELSE LET item_type == ArrayItemType(items)
             self == MkNode("Array", NoneT, FALSE, 0, <<>>, items, "", item_type)
         IN  IF FailingItems(items, item_type) # {}
             THEN Err(MkError("StaticTypeMismatch", self, item_type,
                              items[OffendingItem(items, item_type)].type,
                              "inconsistent types within array"))
             ELSE Ok([self EXCEPT !.type = TArray(item_type)])

\* IfThenElse.__init__: the check of the condition
IfConditionOk(condition) == TypeEq(condition.type, TBoolean)

\* IfThenElse.__init__ allowing one Int and one Float branch
IfBranchesOkWidening(consequent, alternative) ==
    \/ TypeEq(consequent.type, alternative.type)
    \/ {consequent.type, alternative.type} = {TInt, TFloat}

\* IfThenElse.__init__: the check of the two branches
IfBranchesOk(consequent, alternative) == TypeEq(consequent.type, alternative.type)

\* IfThenElse.__init__
IfThenElseInit(items) ==
    LET condition == items[1]
        consequent == items[2]
        alternative == items[3]
        self == MkNode("IfThenElse", consequent.type, FALSE, 0, <<>>, items, "", NoneT)
    IN  IF ~IfConditionOk(condition)
        THEN Err(MkError("StaticTypeMismatch", self, TBoolean, condition.type,
                         "in if condition"))
        ELSE IF ~IfBranchesOk(consequent, alternative)
        THEN Err(MkError("StaticTypeMismatch", self, consequent.type, alternative.type,
                         "if consequent & alternative must have the same type"))
        ELSE Ok(self)

\* _stdlib: the registry holds the logical negation
StdlibNames == {"_negate"}
FunctionNames == StdlibNames \cup {"nosuch"}

\* _Function.typecheck of _negate: one Boolean argument, Boolean result
FunctionTypecheck(function, expr) ==
    IF Len(expr.items) # 1
    THEN Err(MkError("WrongArity", expr, NoneT, NoneT, ""))
    ELSE IF ~Typecheck(expr.items[1], TBoolean).ok
    THEN Err(Typecheck(expr.items[1], TBoolean).err)
    ELSE Ok([expr EXCEPT !.type = TBoolean])

\* Apply.__init__
ApplyInit(function, arguments) ==
    IF function \notin StdlibNames
    THEN Err(MkError("NoSuchFunction",
                     MkNode("Apply", NoneT, FALSE, 0, <<>>, <<>>, function, NoneT),
                     NoneT, NoneT, ""))
    ELSE FunctionTypecheck(function,
             MkNode("Apply", NoneT, FALSE, 0, <<>>, arguments, function, NoneT))

\* Ident.__init__
IdentInit(parts, static_env) ==
    LET identifier == parts[Len(parts)]
        self == MkNode("Ident", NoneT, FALSE, 0, <<>>, <<>>, identifier, NoneT)
    IN  IF identifier \notin DOMAIN static_env
        THEN Err(MkError("UnknownIdentifier", self, NoneT, NoneT, ""))
        ELSE Ok([self EXCEPT !.type = static_env[identifier]])

(***************************************************************************)
(* eval.  An evaluation returns a value or an error, and the trace of the  *)
(* eval calls it made, each named by the path of the node from the root    *)
(* (<<>> the root, <<1>> its first sub-expression, ...), in call order.    *)
(***************************************************************************)
EvalOk(v, trace) == [ok |-> TRUE, val |-> v, err |-> "none", trace |-> trace]
EvalErr(e, trace) == [ok |-> FALSE, val |-> NoValue, err |-> e, trace |-> trace]

\* the character an escape sequence \c stands for (unknown ones are kept)
EscapeChar(c) ==
    CASE c = "n" -> <<"\n">>
      [] c = "t" -> <<"\t">>
      [] c = "\\" -> <<"\\">>
      [] c = "\"" -> <<"\"">>
      [] c = "'" -> <<"'">>
      [] OTHER -> <<"\\", c>>

\* bytes.decode('unicode_escape')
RECURSIVE UnicodeEscape(_)
UnicodeEscape(s) ==
    IF s = <<>> THEN <<>>
    ELSE IF s[1] = "\\" /\ Len(s) >= 2
    THEN EscapeChar(s[2]) \o UnicodeEscape(SubSeq(s, 3, Len(s)))
    ELSE <<s[1]>> \o UnicodeEscape(Tail(s))

RECURSIVE Eval(_, _, _)

\* Boolean.eval, Int.eval, Float.eval
BooleanEval(n, env, path) == EvalOk(VBoolean(n.bool), <<path>>)
IntEval(n, env, path) == EvalOk(VInt(n.num), <<path>>)
FloatEval(n, env, path) == EvalOk(VFloat(n.num), <<path>>)

\* String.eval
StringEval(n, env, path) ==
    EvalOk(VString(UnicodeEscape(SubSeq(n.str, 2, Len(n.str) - 1))), <<path>>)

\* Array.eval: the comprehension from item i on, each item evaluated and
\* then coerced before the next one is evaluated
RECURSIVE EvalItems(_, _, _, _)
EvalItems(n, env, path, i) ==
    IF i > Len(n.items) THEN [ok |-> TRUE, elems |-> <<>>, err |-> "none", trace |-> <<>>]
    ELSE LET r == Eval(n.items[i], env, Append(path, i))
             c == Coerce(r.val, n.item_type)
             rest == EvalItems(n, env, path, i + 1)
         IN  IF ~r.ok
             THEN [ok |-> FALSE, elems |-> <<>>, err |-> r.err, trace |-> r.trace]
             ELSE IF ~c.ok
             THEN [ok |-> FALSE, elems |-> <<>>, err |-> c.err, trace |-> r.trace]
             ELSE IF ~rest.ok
             THEN [ok |-> FALSE, elems |-> <<>>, err |-> rest.err,
                   trace |-> r.trace \o rest.trace]
             ELSE [ok |-> TRUE, elems |-> <<c.val>> \o rest.elems, err |-> "none",
                   trace |-> r.trace \o rest.trace]

\* Array.eval
ArrayEval(n, env, path) ==
    LET r == EvalItems(n, env, path, 1)
    IN  IF r.ok THEN EvalOk(VArray(n.type, r.elems), <<path>> \o r.trace)
        ELSE EvalErr(r.err, <<path>> \o r.trace)

\* IfThenElse.eval evaluating both branches before it chooses
IfBranchesEager(condition_value) ==
    IF condition_value.bool = FALSE THEN <<2, 3>> ELSE <<3, 2>>

\* IfThenElse.eval: the branches evaluated for a condition value, by their
\* place in items (2 the consequent, 3 the alternative)
IfBranches(condition_value) == IF condition_value.bool = FALSE THEN <<3>> ELSE <<2>>

\* IfThenElse.eval: the branches evaluated in turn, the value of the last
\* one returned
RECURSIVE EvalBranches(_, _, _, _)
EvalBranches(n, env, path, branches) ==
    LET r == Eval(n.items[Head(branches)], env, Append(path, Head(branches)))
        rest == EvalBranches(n, env, path, Tail(branches))
    IN  IF Len(branches) = 1 \/ ~r.ok THEN r
        ELSE IF rest.ok THEN EvalOk(rest.val, r.trace \o rest.trace)
        ELSE EvalErr(rest.err, r.trace \o rest.trace)

\* IfThenElse.eval
IfThenElseEval(n, env, path) ==
    LET c == Eval(n.items[1], env, Append(path, 1))
        e == Expect(c.val, TBoolean)
        r == EvalBranches(n, env, path, IfBranches(e.val))
    IN  IF ~c.ok THEN EvalErr(c.err, <<path>> \o c.trace)
        ELSE IF ~e.ok THEN EvalErr(e.err, <<path>> \o c.trace)
        ELSE IF r.ok THEN EvalOk(r.val, <<path>> \o c.trace \o r.trace)
        ELSE EvalErr(r.err, <<path>> \o c.trace \o r.trace)

\* _Function.__call__ of _negate
FunctionCall(function, expr, env, path) ==
    LET a == Eval(expr.items[1], env, Append(path, 1))
        e == Expect(a.val, TBoolean)
    IN  IF ~a.ok THEN EvalErr(a.err, <<path>> \o a.trace)
        ELSE IF ~e.ok THEN EvalErr(e.err, <<path>> \o a.trace)
        ELSE EvalOk(VBoolean(~e.val.bool), <<path>> \o a.trace)

\* Apply.eval
ApplyEval(n, env, path) == FunctionCall(n.name, n, env, path)

\* Ident.eval
IdentEval(n, env, path) ==
    IF EnvHas(env, n.name) THEN EvalOk(env[n.name], <<path>>)
    ELSE EvalErr("UnknownIdentifier", <<path>>)

\* node.eval(env), dispatched on the node's class
Eval(n, env, path) ==
    CASE n.kind = "Boolean" -> BooleanEval(n, env, path)
      [] n.kind = "Int" -> IntEval(n, env, path)
      [] n.kind = "Float" -> FloatEval(n, env, path)
      [] n.kind = "String" -> StringEval(n, env, path)
      [] n.kind = "Array" -> ArrayEval(n, env, path)
      [] n.kind = "IfThenElse" -> IfThenElseEval(n, env, path)
      [] n.kind = "Apply" -> ApplyEval(n, env, path)
      [] n.kind = "Ident" -> IdentEval(n, env, path)

(***************************************************************************)
(* The state machine.  The nodes are constructed bottom-up, leaves first:  *)
(* stack holds the constructed nodes that have no parent yet, in the order *)
(* of their construction, and a constructor takes its sub-expressions from *)
(* the top of the stack.  result is the outcome of the call that has just  *)
(* returned, until the caller takes it; calls are synchronous.  evals      *)
(* holds the evaluations that run in parallel (see SpecPar); there are     *)
(* none under Spec.                                                        *)
(***************************************************************************)
NoResult == [op |-> "none"]
Idle == result.op = "none"

\* the number of nodes of a tree, and of the trees of a sequence
RECURSIVE Size(_)
RECURSIVE TotalSize(_)
Size(n) == 1 + TotalSize(n.items)
TotalSize(s) == IF s = <<>> THEN 0 ELSE Size(Head(s)) + TotalSize(Tail(s))

\* the k nodes constructed last, in the order of their construction
TopItems(k) == SubSeq(stack, Len(stack) - k + 1, Len(stack))
TopNode == stack[Len(stack)]

\* the outcome of a constructor call on the k nodes constructed last; a call
\* that fails constructs no node
Constructed(kind, k, r) ==
    /\ Idle
    /\ r.ok => /\ TotalSize(stack) + 1 <= MaxNodes
               /\ Len(stack) - k + 1 <= MaxItems
    /\ stack' = IF r.ok THEN Append(SubSeq(stack, 1, Len(stack) - k), r.node)
                ELSE stack
    /\ result' = [op |-> "new", kind |-> kind, args |-> TopItems(k), ok |-> r.ok,
                  node |-> r.node, err |-> r.err]
    /\ UNCHANGED evals

NewBoolean(literal) == Constructed("Boolean", 0, BooleanInit(literal))
NewInt(literal) == Constructed("Int", 0, IntInit(literal))
NewFloat(literal) == Constructed("Float", 0, FloatInit(literal))
NewString(literal) == Constructed("String", 0, StringInit(literal))
NewArray(k) ==
    /\ k <= Len(stack)
    /\ Constructed("Array", k, ArrayInit(TopItems(k)))
NewIfThenElse ==
    /\ Len(stack) >= 3
    /\ Constructed("IfThenElse", 3, IfThenElseInit(TopItems(3)))
NewApply(function, k) ==
    /\ k <= Len(stack)
    /\ Constructed("Apply", k, ApplyInit(function, TopItems(k)))
NewIdent(parts) == Constructed("Ident", 0, IdentInit(parts, TheStaticEnv))

\* a node and the nodes below it
RECURSIVE Subnodes(_)
Subnodes(n) == {n} \cup UNION {Subnodes(n.items[i]) : i \in 1..Len(n.items)}

\* the expected types a caller passes to typecheck
ExpectedTypes ==
    {NoneT, TBoolean, TInt, TFloat, TString, TAnyArray, TArray(TBoolean),
     TArray(TInt), TArray(TFloat)}
        \cup {m.type : m \in UNION {Subnodes(stack[i]) : i \in 1..Len(stack)}}

\* typecheck returns self: the node returned is the node as the call leaves it
AfterTypecheck(n, r) == IF r.ok THEN r.node ELSE n

\* a typecheck call on the node constructed last
DoTypecheck(expected) ==
    /\ Idle
    /\ stack # <<>>
    /\ LET r == Typecheck(TopNode, expected)
       IN  /\ result' = [op |-> "typecheck", node |-> TopNode, expected |-> expected,
                         ok |-> r.ok, ret |-> r.node, err |-> r.err]
           /\ stack' = [stack EXCEPT ![Len(stack)] = AfterTypecheck(TopNode, r)]
    /\ UNCHANGED evals

\* an eval call on the node constructed last
DoEval(env) ==
    /\ Idle
    /\ stack # <<>>
    /\ LET r == Eval(TopNode, env, <<>>)
       IN  result' = [op |-> "eval", node |-> TopNode, env |-> env, ok |-> r.ok,
                      val |-> r.val, err |-> r.err, trace |-> r.trace]
    /\ UNCHANGED <<stack, evals>>

\* the caller takes the outcome of the call
Return == ~Idle /\ result' = NoResult /\ UNCHANGED <<stack, evals>>

Threads == {1, 2}
NoFrames == <<>>
NotStarted ==
    [status |-> "idle", at |-> <<>>, env |-> [x |-> NoValue], stack |-> NoFrames,
     has |-> FALSE, ret |-> NoValue, out |-> ValErr("none"), met |-> FALSE]

Init == stack = <<>> /\ result = NoResult /\ evals = [t \in Threads |-> NotStarted]

Next ==
    \/ \E literal \in BOOLEAN : NewBoolean(literal)
    \/ \E literal \in {1} : NewInt(literal)
    \/ \E literal \in {15} : NewFloat(literal)
    \/ \E literal \in {StrLit} : NewString(literal)
    \/ \E k \in 0..MaxItems : NewArray(k)
    \/ NewIfThenElse
    \/ \E function \in FunctionNames, k \in 0..2 : NewApply(function, k)
    \/ \E id \in Names : NewIdent(<<id>>)
    \/ \E expected \in ExpectedTypes : DoTypecheck(expected)
    \/ \E env \in Envs : DoEval(env)
    \/ Return

Spec == Init /\ [][Next]_vars

(***************************************************************************)
(* Evaluations in parallel.  Each thread runs one eval call tree on its    *)
(* own call stack, one call or return at a step, against its own Env; the  *)
(* threads share one tree and read its nodes at every step.  A frame is an *)
(* eval call in progress: the path of its node, the place of the           *)
(* sub-expression it evaluates next, and the values it has collected.      *)
(***************************************************************************)
\* the trees the parallel evaluations share, each built by the constructors
ParRoots ==
    LET b == IdentInit(<<"b">>, TheStaticEnv).node
        x == IdentInit(<<"x">>, TheStaticEnv).node
        i == IntInit(1).node
        f == FloatInit(15).node
        not_b == ApplyInit("_negate", <<b>>).node
    IN  { IfThenElseInit(<<b, x, i>>).node,
          ArrayInit(<<i, f>>).node,
          ArrayInit(<<not_b, b>>).node,
          IfThenElseInit(<<not_b, ArrayInit(<<x>>).node, ArrayInit(<<i>>).node>>).node }

\* the node at a path below a root
RECURSIVE NodeAt(_, _)
NodeAt(root, path) ==
    IF path = <<>> THEN root ELSE NodeAt(root.items[Head(path)], Tail(path))

\* the paths of the nodes of a tree
RECURSIVE Paths(_)
Paths(n) ==
    {<<>>} \cup UNION {{<<i>> \o p : p \in Paths(n.items[i])} : i \in 1..Len(n.items)}

\* the tree with the node at a path replaced
RECURSIVE ReplaceAt(_, _, _)
ReplaceAt(root, path, m) ==
    IF path = <<>> THEN m
    ELSE [root EXCEPT !.items[Head(path)] = ReplaceAt(@, Tail(path), m)]

\* the tree the threads share
Shared == stack[1]

Frame(path) == [path |-> path, stage |-> 1, acc |-> <<>>]
Top(e) == e.stack[Len(e.stack)]
Pop(frames) == SubSeq(frames, 1, Len(frames) - 1)

\* the call on top of the stack returns value v to its caller
Returns(e, v) ==
    IF Len(e.stack) = 1
    THEN [e EXCEPT !.status = "done", !.stack = NoFrames, !.has = FALSE,
                   !.ret = NoValue, !.out = ValOk(v)]
    ELSE [e EXCEPT !.stack = Pop(e.stack), !.has = TRUE, !.ret = v]

\* the call on top of the stack raises: the error unwinds the whole stack
Raises(e, err) ==
    [e EXCEPT !.status = "done", !.stack = NoFrames, !.has = FALSE,
              !.ret = NoValue, !.out = ValErr(err)]

\* the call on top of the stack calls eval on its sub-expression at place k
Calls(e, k) ==
    [e EXCEPT !.stack = Append(e.stack, Frame(Append(Top(e).path, k))), !.has = FALSE,
              !.ret = NoValue]

\* one step of an eval call on node n that has no value of a sub-expression
\* to take
EnterStep(e, n) ==
    CASE n.kind = "Boolean" -> Returns(e, VBoolean(n.bool))
      [] n.kind = "Int" -> Returns(e, VInt(n.num))
      [] n.kind = "Float" -> Returns(e, VFloat(n.num))
      [] n.kind = "String" ->
             Returns(e, VString(UnicodeEscape(SubSeq(n.str, 2, Len(n.str) - 1))))
      [] n.kind = "Ident" ->
             IF EnvHas(e.env, n.name) THEN Returns(e, e.env[n.name])
             ELSE Raises(e, "UnknownIdentifier")
      [] n.kind = "Array" ->
             IF Top(e).stage > Len(n.items) THEN Returns(e, VArray(n.type, Top(e).acc))
             ELSE Calls(e, Top(e).stage)
      [] n.kind = "IfThenElse" -> Calls(e, 1)
      [] n.kind = "Apply" -> Calls(e, 1)

\* one step of an eval call on node n that takes the value its sub-expression
\* returned
TakeStep(e, n) ==
    LET v == e.ret
        top == Len(e.stack)
    IN  CASE n.kind = "Array" ->
                 IF Coerce(v, n.item_type).ok
                 THEN [e EXCEPT !.stack[top].acc = Append(@, Coerce(v, n.item_type).val),
                                !.stack[top].stage = @ + 1,
                                !.has = FALSE, !.ret = NoValue]
                 ELSE Raises(e, Coerce(v, n.item_type).err)
          [] n.kind = "IfThenElse" ->
                 IF Top(e).stage > 1 THEN Returns(e, v)
                 ELSE IF ~Expect(v, TBoolean).ok THEN Raises(e, Expect(v, TBoolean).err)
                 ELSE Calls([e EXCEPT !.stack[top].stage = 2],
                            IF Expect(v, TBoolean).val.bool = FALSE THEN 3 ELSE 2)
          [] n.kind = "Apply" ->
                 IF ~Expect(v, TBoolean).ok THEN Raises(e, Expect(v, TBoolean).err)
                 ELSE Returns(e, VBoolean(~Expect(v, TBoolean).val.bool))

\* a thread calls eval(env) on the node at a path of the shared tree
StartEval(t, at, env) ==
    /\ evals[t].status = "idle"
    /\ evals' = [evals EXCEPT ![t] =
                    [NotStarted EXCEPT !.status = "running", !.at = at, !.env = env,
                                       !.stack = <<Frame(at)>>]]
    /\ UNCHANGED <<stack, result>>

\* a thread makes one step; met records that another evaluation was running
StepEval(t) ==
    /\ evals[t].status = "running"
    /\ LET e == [evals[t] EXCEPT !.met =
                    @ \/ \E u \in Threads \ {t} : evals[u].status = "running"]
           n == NodeAt(Shared, Top(e).path)
       IN  evals' = [evals EXCEPT ![t] = IF e.has THEN TakeStep(e, n)
                                         ELSE EnterStep(e, n)]
    /\ UNCHANGED <<stack, result>>

\* the caller of a thread takes its outcome
FinishEval(t) ==
    /\ evals[t].status = "done"
    /\ evals' = [evals EXCEPT ![t] = NotStarted]
    /\ UNCHANGED <<stack, result>>

\* a typecheck call on a node of the shared tree, made while evaluations run
ParTypecheck(at, expected) ==
    /\ LET n == NodeAt(Shared, at)
       IN  stack' = <<ReplaceAt(Shared, at, AfterTypecheck(n, Typecheck(n, expected)))>>
    /\ UNCHANGED <<result, evals>>

ParInit ==
    /\ stack \in {<<r>> : r \in ParRoots}
    /\ result = NoResult
    /\ evals = [t \in Threads |-> NotStarted]

ParNext ==
    \/ \E t \in Threads, at \in Paths(Shared), env \in Envs : StartEval(t, at, env)
    \/ \E t \in Threads : StepEval(t)
    \/ \E t \in Threads : FinishEval(t)
    \/ \E at \in Paths(Shared), expected \in ExpectedTypes : ParTypecheck(at, expected)

SpecPar == ParInit /\ [][ParNext]_vars

(***************************************************************************)
(* Properties                                                              *)
(***************************************************************************)
IsNew(kind) == result.op = "new" /\ result.kind = kind
IsEmptyArray(n) == n.kind = "Array" /\ Len(n.items) = 0

\* the value type agrees with the static type, up to the Int-to-Float coercion
TypeAgrees(value_type, static_type) ==
    \/ value_type = static_type
    \/ {value_type, static_type} = {TInt, TFloat}

\* C1: whenever eval returns a value for a constructed node, the value's
\* type is the node's static type (up to the Int-to-Float coercion), for
\* every Env.
C1_EvalTypeIsStaticType ==
    (result.op = "eval" /\ result.ok)
        => TypeAgrees(result.val.type, result.node.type)

\* C2: an evaluation of a constructed node fails only with UnknownIdentifier,
\* never with a type error.
C2_EvalFailsOnlyOnLookup ==
    (result.op = "eval" /\ ~result.ok) => result.err = "UnknownIdentifier"

\* the items are all of type Int or Float, one of them at least of type Float
IntFloatMix(items) ==
    /\ Len(items) > 0
    /\ \A i \in 1..Len(items) : items[i].type \in {TInt, TFloat}
    /\ \E i \in 1..Len(items) : items[i].type = TFloat

\* C3: an Array of elements typed Int or Float, one at least Float, is
\* constructed with item type Float whatever node carries the Int type, and
\* its evaluation yields Float values only.
C3_IntFloatMixIsFloatArray ==
    /\ (IsNew("Array") /\ IntFloatMix(result.args))
           => /\ result.ok
              /\ result.node.item_type = TFloat
              /\ result.node.type = TArray(TFloat)
    /\ (result.op = "eval" /\ result.ok /\ result.node.kind = "Array"
          /\ IntFloatMix(result.node.items))
           => \A i \in 1..Len(result.val.elems) : result.val.elems[i].type = TFloat

\* C4: an Array of no items has type AnyArray and its typecheck against any
\* concrete array type returns the node itself; the typecheck of a non-empty
\* Array against a type other than its own is a mismatch, also against an
\* array type.
C4_EmptyArrayAnyArray ==
    /\ (IsNew("Array") /\ result.args = <<>>)
           => result.ok /\ result.node.type = TAnyArray
    /\ (result.op = "typecheck" /\ IsEmptyArray(result.node)
          /\ result.expected[1] = "Array")
           => result.ok /\ result.ret = result.node
    /\ (result.op = "typecheck" /\ result.node.kind = "Array"
          /\ Len(result.node.items) > 0 /\ result.expected # NoneT
          /\ result.expected # result.node.type)
           => /\ ~result.ok
              /\ result.err = MkError("StaticTypeMismatch", result.node,
                                      result.expected, result.node.type, "")

C4_Witness ==
    /\ result.op = "typecheck" /\ IsEmptyArray(result.node)
    /\ result.expected = TArray(TBoolean)
    /\ result.ok /\ result.ret = result.node

\* C5: IfThenElse is constructed exactly when the condition's type is Boolean
\* and the two branches' types are equal; a non-Boolean condition is reported
\* "in if condition" whatever the branches are, unequal branches are a
\* StaticTypeMismatch, and the node's type is the consequent's.
C5_IfThenElseTyping ==
    IsNew("IfThenElse") =>
        LET condition == result.args[1]
            consequent == result.args[2]
            alternative == result.args[3]
        IN  /\ result.ok <=> (condition.type = TBoolean
                                /\ consequent.type = alternative.type)
            /\ condition.type # TBoolean
                   => /\ result.err.kind = "StaticTypeMismatch"
                      /\ result.err.note = "in if condition"
                      /\ result.err.expected = TBoolean
                      /\ result.err.actual = condition.type
            /\ (condition.type = TBoolean /\ consequent.type # alternative.type)
                   => /\ result.err.kind = "StaticTypeMismatch"
                      /\ result.err.note # "in if condition"
                      /\ result.err.expected = consequent.type
                      /\ result.err.actual = alternative.type
            /\ result.ok => /\ result.node.type = consequent.type
                            /\ result.node.items = result.args
                            /\ TopNode = result.node

\* an Int literal and a Float literal as the branches of a Boolean condition
C5_Witness ==
    /\ IsNew("IfThenElse") /\ ~result.ok
    /\ result.args[1].type = TBoolean
    /\ result.args[2].kind = "Int" /\ result.args[3].kind = "Float"

\* the eval calls of a trace made on the sub-expression at place k, or below it
CallsUnder(trace, k) ==
    {i \in 1..Len(trace) : Len(trace[i]) >= 1 /\ trace[i][1] = k}

\* C6: an evaluation of an IfThenElse evaluates the condition first and then
\* one branch only: the alternative when the condition's value is false, the
\* consequent otherwise; no eval call is made on the other branch, and the
\* outcome is the outcome of the branch taken.
C6_IfThenElseShortCircuit ==
    (result.op = "eval" /\ result.node.kind = "IfThenElse") =>
        LET n == result.node
            c == Eval(n.items[1], result.env, <<1>>)
            taken == IF c.val.bool = FALSE THEN 3 ELSE 2
            other == IF c.val.bool = FALSE THEN 2 ELSE 3
            r == Eval(n.items[taken], result.env, <<taken>>)
        IN  /\ result.trace[1] = <<>>
            /\ result.trace[2] = <<1>>
            /\ (c.ok /\ c.val.type = TBoolean)
                   => /\ CallsUnder(result.trace, other) = {}
                      /\ Cardinality({i \in 1..Len(result.trace) :
                                         result.trace[i] = <<taken>>}) = 1
                      /\ \A i \in CallsUnder(result.trace, 1) :
                             \A j \in CallsUnder(result.trace, taken) : i < j
                      /\ result.ok = r.ok
                      /\ result.val = r.val
                      /\ result.err = r.err

\* the branch not taken would have raised UnknownIdentifier
C6_Witness ==
    /\ result.op = "eval" /\ result.node.kind = "IfThenElse" /\ result.ok
    /\ \E k \in 2..3 :
           /\ CallsUnder(result.trace, k) = {}
           /\ Eval(result.node.items[k], result.env, <<k>>).err = "UnknownIdentifier"

\* the candidate item type of Array.__init__, as the claim words it
CandidateType(items) ==
    IF items[1].type = TInt /\ \E i \in 1..Len(items) : items[i].type = TFloat
    THEN TFloat
    ELSE items[1].type

\* C7: when an element fails typecheck against the candidate item type, Array
\* construction yields no node and one StaticTypeMismatch naming the array,
\* with the candidate type as expected, the type of the first failing element
\* as actual and the note "inconsistent types within array"; it is not the
\* element's own error.
C7_ArrayMismatchReport ==
    (IsNew("Array") /\ Len(result.args) > 0) =>
        LET items == result.args
            t == CandidateType(items)
            F == {i \in 1..Len(items) : ~Typecheck(items[i], t).ok}
            first == CHOOSE i \in F : \A j \in F : i <= j
        IN  F # {} =>
                /\ ~result.ok
                /\ result.node = NoNode
                /\ TopItems(Len(items)) = items
                /\ result.err.kind = "StaticTypeMismatch"
                /\ result.err.node.kind = "Array"
                /\ result.err.node.items = items
                /\ result.err.expected = t
                /\ result.err.actual = items[first].type
                /\ result.err.note = "inconsistent types within array"
                /\ result.err # Typecheck(items[first], t).err

\* two elements of different types fail, the Int-typed first element among them
C7_Witness ==
    /\ IsNew("Array") /\ ~result.ok /\ Len(result.args) = 3
    /\ LET items == result.args
           t == CandidateType(items)
       IN  /\ ~Typecheck(items[1], t).ok
           /\ \E j \in 2..3 : /\ ~Typecheck(items[j], t).ok
                              /\ items[j].type # items[1].type

\* C8: the typecheck of a constructed node against its own type succeeds and
\* returns that node, for every node constructed.
C8_TypecheckOwnType ==
    /\ (result.op = "typecheck" /\ result.expected = result.node.type)
           => /\ result.ok
              /\ result.ret = result.node
              /\ TopNode = result.node
    /\ \A i \in 1..Len(stack) :
           \A n \in Subnodes(stack[i]) : Typecheck(n, n.type) = Ok(n)

C8_Witness ==
    /\ result.op = "typecheck" /\ result.expected = result.node.type
    /\ result.node.kind \in {"IfThenElse", "Apply", "Ident"}
    /\ result.ok /\ result.ret = result.node
    /\ {m.kind : m \in Subnodes(stack[1])} \cap {"Int", "Array"} # {}

\* an evaluation that has returned has the outcome of the same call run alone
SameAsAlone(e) ==
    LET r == Eval(NodeAt(Shared, e.at), e.env, <<>>)
    IN  e.out = [ok |-> r.ok, val |-> r.val, err |-> r.err]

\* C9: no typecheck call and no step of an evaluation, in any interleaving
\* of the calls of evaluations run in parallel on shared nodes, changes a
\* constructed node or the Env of an evaluation; every evaluation returns
\* what the same call returns when it runs alone.
C9_SharedTreeImmutable ==
    /\ [][/\ stack' = stack
          /\ \A t \in Threads :
                 (evals[t].status # "idle" /\ evals'[t].status # "idle")
                     => /\ evals'[t].env = evals[t].env
                        /\ evals'[t].at = evals[t].at]_vars
    /\ [](\A t \in Threads : evals[t].status = "done" => SameAsAlone(evals[t]))

\* two evaluations of one node that ran in parallel against different Envs
\* and returned different values
C9_Witness ==
    /\ \A t \in Threads : evals[t].status = "done" /\ evals[t].met /\ evals[t].out.ok
    /\ evals[1].at = evals[2].at
    /\ NodeAt(Shared, evals[1].at).kind \in {"IfThenElse", "Array"}
    /\ evals[1].env # evals[2].env
    /\ evals[1].out # evals[2].out

\* the sequences that hold the elements of s in another order
Reorderings(s) ==
    {[i \in 1..Len(s) |-> s[p[i]]] :
        p \in {q \in [1..Len(s) -> 1..Len(s)] :
                  \A i, j \in 1..Len(s) : q[i] = q[j] => i = j}}

\* the outcome of Array construction is the same for every order of the items
OrderIndependent(items) ==
    \A p \in Reorderings(items) :
        /\ ArrayInit(p).ok = result.ok
        /\ result.ok => ArrayInit(p).node.type = result.node.type
        /\ ~result.ok => ArrayInit(p).err.kind = "StaticTypeMismatch"

\* C10 as claimed: for every sequence of elements, Array construction has the
\* same outcome on every permutation of it.
C10_OrderIndependentAll ==
    IsNew("Array") => OrderIndependent(result.args)

\* C10: Array construction has the same outcome (the same array type, or a
\* StaticTypeMismatch) on every permutation of the elements, for every
\* sequence that does not hold both an empty Array and an element of a
\* concrete array type.
C10_OrderIndependent ==
    (IsNew("Array")
       /\ ~(/\ \E i \in 1..Len(result.args) : IsEmptyArray(result.args[i])
            /\ \E i \in 1..Len(result.args) : result.args[i].type[1] = "Array"))
        => OrderIndependent(result.args)

\* an Int literal before a Float: the promotion makes the order immaterial
C10_Witness ==
    /\ IsNew("Array") /\ result.ok /\ Len(result.args) >= 2
    /\ result.args[1].type = TInt
    /\ \E i \in 2..Len(result.args) : result.args[i].type = TFloat

====
